---- MODULE Spec2Model ----
(***************************************************************************)
(* Model of duplicate_files_finder.py: main() scans a directory tree and   *)
(* reports groups of duplicate files, either by size + md5 checksum        *)
(* (find_duplicate_files) or by pairwise comparison                        *)
(* (find_duplicate_files_by_cmp, option -c).                               *)
(*                                                                         *)
(* The filesystem is a function from paths to what the program can observe *)
(* of a directory entry: its type, the bytes a read returns, st_size,      *)
(* st_mtime, whether open() succeeds.  It does not change during a run.    *)
(***************************************************************************)
EXTENDS Integers, Sequences, FiniteSets, TLC

VARIABLES
    fs,               \* the files below the root: path -> directory entry
    rootOk,           \* the root exists and can be listed
    compare,          \* args.compare (option -c)
    pc,               \* position in main()
    file_path_names,  \* main's file_path_names (result of scan_files)
    pool,             \* find_duplicate_files_by_cmp's file_path_names
    groups,           \* the strategy's groups
    stdout,           \* what print_output wrote, one entry per run of main
    cmp_call          \* last direct call of compare_files: its arguments and result

vars == <<fs, rootOk, compare, pc, file_path_names, pool, groups, stdout, cmp_call>>

----------------------------------------------------------------------------
(* Bounds and value sets of the inputs.                                    *)

\* Number of directory entries below the root in one run.
MaxFiles == 3

\* Number of directory entries in the runs over more files of fewer kinds
\* (readable regular files only).
MaxFilesMany == 4

\* Number of times main is run on the same filesystem in SpecTwice.
Runs == 2

\* Width of the digest in bits.  md5's 128 bits are scaled down, as the file
\* contents are: a digest is shorter than the longest content, so distinct
\* contents of one size can share a digest, as they can under md5.
DigestBits == 1

Paths == 1..MaxFiles

PathsMany == 1..MaxFilesMany

\* File contents used with the checksum strategy: empty, three of one byte
\* (two of them share a digest when DigestBits = 1), one of two bytes.
ContentsSum == {<< >>, <<0>>, <<1>>, <<2>>, <<0, 1>>}

\* The two operands of a direct call of compare_files.
PairPaths == {1, 2}

\* File contents used with the comparison strategy.
ContentsCmp == {<< >>, <<0>>, <<1>>}

\* File contents used with direct calls of compare_files.
ContentsCompare == {<< >>, <<0>>, <<1>>, <<0, 0>>, <<0, 1>>}

\* Modification times.
Mtimes == {1, 2}

----------------------------------------------------------------------------
(* Directory entries.                                                      *)

RegularFiles(C, M) ==
    {[kind |-> "reg", content |-> c, st_size |-> Len(c), st_mtime |-> m,
      readable |-> r] : c \in C, m \in M, r \in BOOLEAN}

\* A symbolic link; scan_files drops it before anything else is read of it.
SymLink ==
    [kind |-> "link", content |-> << >>, st_size |-> 0, st_mtime |-> 1,
     readable |-> TRUE]

\* A non-regular, non-directory entry (device node, socket, FIFO): stat
\* reports st_size 0 for it, whatever a read of it returns.
SpecialFile ==
    [kind |-> "special", content |-> <<0>>, st_size |-> 0, st_mtime |-> 1,
     readable |-> TRUE]

\* An entry os.walk lists but stat() cannot reach (its directory is readable
\* but not searchable): stat and open raise OSError.
Denied ==
    [kind |-> "denied", content |-> << >>, st_size |-> 0, st_mtime |-> 1,
     readable |-> FALSE]

Range(s) == {s[i] : i \in 1..Len(s)}

\* list(set): the elements of S in any order.
Orderings(S) ==
    {s \in [1..Cardinality(S) -> S] : \A i, j \in 1..Cardinality(S) :
        s[i] = s[j] => i = j}

RECURSIVE Iota(_)
\* <<1, ..., n>>
Iota(n) == IF n = 0 THEN << >> ELSE Append(Iota(n - 1), n)

----------------------------------------------------------------------------
(* scan_files                                                              *)

\* os.path.islink: lstat-based; an lstat error reads as "not a link".
islink(x) == fs[x].kind = "link"

\* os.walk(abspath(expanduser(path))), flattened to the files it yields, in
\* traversal order.  walk is called without onerror: an error listing the
\* root is swallowed and the walk yields nothing.
walk == IF rootOk THEN Iota(Cardinality(DOMAIN fs)) ELSE << >>

scan_files == SelectSeq(walk, LAMBDA x : ~islink(x))

----------------------------------------------------------------------------
(* group_files_by_size, get_file_checksum, group_files_by_checksum,        *)
(* find_duplicate_files.  A dict is a sequence of [key, val] in insertion  *)
(* order.                                                                  *)

\* os.stat raises OSError on this path.
stat_raises(x) == fs[x].kind = "denied"

getsize(x) == fs[x].st_size

\* groups.setdefault(k, []).append(v)
setdefault_append(d, k, v) ==
    IF \E i \in 1..Len(d) : d[i].key = k
    THEN [i \in 1..Len(d) |->
            IF d[i].key = k THEN [d[i] EXCEPT !.val = Append(@, v)] ELSE d[i]]
    ELSE Append(d, [key |-> k, val |-> <<v>>])

\* Mutant: every value of the dict is kept, whatever its length.
values_longer_than_one_mut(d) == [i \in 1..Len(d) |-> d[i].val]

\* [group for group in groups.values() if len(group) > 1]
values_longer_than_one(d) ==
    LET vals == [i \in 1..Len(d) |-> d[i].val]
    IN  SelectSeq(vals, LAMBDA g : Len(g) > 1)

RECURSIVE size_dict_mut(_)
\* Mutant: empty files are not ignored.
size_dict_mut(names) ==
    IF names = << >> THEN << >>
    ELSE LET n        == Len(names)
             d        == size_dict_mut(SubSeq(names, 1, n - 1))
             filename == names[n]
             size     == getsize(filename)
         IN  setdefault_append(d, size, filename)

RECURSIVE size_dict(_)
\* The dict of lines 57-62 after the loop over file_path_names.
size_dict(names) ==
    IF names = << >> THEN << >>
    ELSE LET n        == Len(names)
             d        == size_dict(SubSeq(names, 1, n - 1))
             filename == names[n]
             size     == getsize(filename)
         IN  IF size # 0 THEN setdefault_append(d, size, filename) ELSE d

\* getsize raises for some path of the list: group_files_by_size raises.
group_files_by_size_raises(names) ==
    \E i \in 1..Len(names) : stat_raises(names[i])

group_files_by_size(names) == values_longer_than_one(size_dict(names))

\* Python's None.
None == << >>

RECURSIVE md5_state(_)
\* md5's chaining over the content, on a DigestBits-wide state.
md5_state(c) ==
    IF c = << >> THEN 1
    ELSE (3 * md5_state(SubSeq(c, 1, Len(c) - 1)) + c[Len(c)] + 1)
            % (2 ^ DigestBits)

\* md5(content).hexdigest(): a non-empty string, here the digest's digits
\* (the length of the content is part of what md5 hashes).
hexdigest(c) == <<"md5", (md5_state(c) + Len(c)) % (2 ^ DigestBits)>>

\* Mutant: a failed read counts as a read of nothing.
get_file_checksum_mut(file_path) ==
    IF fs[file_path].readable THEN hexdigest(fs[file_path].content)
    ELSE hexdigest(<< >>)

\* get_file_checksum: the digest, or None when open or read raises OSError.
get_file_checksum(file_path) ==
    IF fs[file_path].readable THEN hexdigest(fs[file_path].content) ELSE None

RECURSIVE checksum_dict(_)
\* The dict of lines 84-88 after the loop.
checksum_dict(names) ==
    IF names = << >> THEN << >>
    ELSE LET n         == Len(names)
             d         == checksum_dict(SubSeq(names, 1, n - 1))
             file_path == names[n]
             checksum  == get_file_checksum(file_path)
         IN  IF checksum # None /\ Len(checksum) > 0
             THEN setdefault_append(d, checksum, file_path)
             ELSE d

group_files_by_checksum(names) == values_longer_than_one(checksum_dict(names))

RECURSIVE extend_all(_)
\* groups.extend(group_files_by_checksum(group)) for each size group in turn.
extend_all(size_groups) ==
    IF size_groups = << >> THEN << >>
    ELSE LET n == Len(size_groups)
         IN  extend_all(SubSeq(size_groups, 1, n - 1))
                \o group_files_by_checksum(size_groups[n])

find_duplicate_files(names) == extend_all(group_files_by_size(names))

----------------------------------------------------------------------------
(* compare_files                                                           *)

\* The chunk size, scaled down from 8 * 1024 as the contents are: with a
\* chunk of one byte _do_compare reads more than one chunk.
BUFSIZE == 1

S_IFREG == "S_IFREG"

\* S_IFMT(st.st_mode)
S_IFMT(x) == IF fs[x].kind = "reg" THEN S_IFREG ELSE "S_IFOTHER"

\* _sig(stat(f))
sig(x) == <<S_IFMT(x), fs[x].st_size, fs[x].st_mtime>>

\* fp.read(bufsize) at offset off.
read_chunk(c, off, bufsize) ==
    SubSeq(c, off + 1, IF off + bufsize < Len(c) THEN off + bufsize ELSE Len(c))

RECURSIVE compare_chunks(_, _, _)
\* The while loop of _do_compare, from offset off.
compare_chunks(c1, c2, off) ==
    LET b1 == read_chunk(c1, off, BUFSIZE)
        b2 == read_chunk(c2, off, BUFSIZE)
    IN  IF b1 # b2 THEN FALSE
        ELSE IF b1 = << >> THEN TRUE
        ELSE compare_chunks(c1, c2, off + BUFSIZE)

\* _do_compare: an OSError from open is caught and reads as "different".
do_compare(file1, file2) ==
    IF ~fs[file1].readable \/ ~fs[file2].readable THEN FALSE
    ELSE compare_chunks(fs[file1].content, fs[file2].content, 0)

compare_files_raises(f1, f2) == stat_raises(f1) \/ stat_raises(f2)

\* Mutant: the signatures short-circuit whatever shallow is.
compare_files_mut(f1, f2, shallow) ==
    LET s1 == sig(f1)
        s2 == sig(f2)
    IN  IF s1[1] # S_IFREG \/ s2[1] # S_IFREG THEN FALSE
        ELSE IF s1 = s2 THEN TRUE
        ELSE IF s1[2] # s2[2] THEN FALSE
        ELSE do_compare(f1, f2)

\* compare_files(f1, f2, shallow) when neither stat raises.
compare_files(f1, f2, shallow) ==
    LET s1 == sig(f1)
        s2 == sig(f2)
    IN  IF s1[1] # S_IFREG \/ s2[1] # S_IFREG THEN FALSE
        ELSE IF shallow /\ s1 = s2 THEN TRUE
        ELSE IF s1[2] # s2[2] THEN FALSE
        ELSE do_compare(f1, f2)

\* The default of compare_files' parameter shallow.
shallow_default == TRUE

----------------------------------------------------------------------------
(* find_duplicate_files_by_cmp, one iteration of its while loop            *)

\* Lines 162-166: current and the files of the pool that compare equal to it.
group_duplicate_files(names) ==
    LET current == names[1]
    IN  <<current>> \o SelectSeq(Tail(names),
            LAMBDA filename : compare_files(current, filename, shallow_default))

\* Some comparison of lines 164-165 raises.
cmp_iteration_raises(names) ==
    \E i \in 2..Len(names) : compare_files_raises(names[1], names[i])

\* Mutant: current itself stays in the pool.
remaining_mut(names, group) == Range(names) \ Range(Tail(group))

\* Mutant: only current leaves the pool, not the files equal to it.
remaining_mut_current(names, group) == Range(names) \ {names[1]}

\* set(file_path_names) - set(group_duplicate_files)
remaining(names, group) == Range(names) \ Range(group)

\* Lines 169-170.
appended_if_duplicates(gs, group) ==
    IF Len(group) > 1 THEN Append(gs, group) ELSE gs

----------------------------------------------------------------------------
(* Initial states                                                          *)

InitLocals ==
    /\ pc = "start"
    /\ file_path_names = << >>
    /\ pool = << >>
    /\ groups = << >>
    /\ stdout = << >>
    /\ cmp_call = << >>

\* Run with the checksum strategy; st_mtime is never read by it.
InitSum ==
    /\ compare = FALSE
    /\ rootOk = TRUE
    /\ fs \in [Paths -> RegularFiles(ContentsSum, {1})
                            \cup {SpecialFile, SymLink, Denied}]

\* Run with the comparison strategy.
InitCmp ==
    /\ compare = TRUE
    /\ rootOk = TRUE
    /\ fs \in [Paths -> RegularFiles(ContentsCmp, Mtimes)
                            \cup {SpecialFile, SymLink, Denied}]

\* Run on a root that is missing or cannot be listed.
InitNoRoot ==
    /\ compare \in BOOLEAN
    /\ rootOk = FALSE
    /\ fs = << >>

\* Run with either strategy over more files, all regular and readable.
InitMany ==
    /\ compare \in BOOLEAN
    /\ rootOk = TRUE
    /\ fs \in [PathsMany ->
                {f \in RegularFiles(ContentsCmp, Mtimes) : f.readable}]

Init == InitLocals /\ (InitSum \/ InitCmp \/ InitNoRoot \/ InitMany)

\* Runs repeated on one filesystem.
InitTwice == InitLocals /\ InitMany

\* Direct calls of compare_files on any two entries that are not links.
InitCompare ==
    /\ InitLocals
    /\ compare = TRUE
    /\ rootOk = TRUE
    /\ fs \in [PairPaths -> RegularFiles(ContentsCompare, Mtimes)
                                \cup {SpecialFile, Denied}]

----------------------------------------------------------------------------
(* main                                                                    *)

\* Line 177: file_path_names = scan_files(args.path)
ScanFiles ==
    /\ pc = "start"
    /\ file_path_names' = scan_files
    /\ pc' = "scanned"
    /\ UNCHANGED <<fs, rootOk, compare, pool, groups, stdout, cmp_call>>

\* Line 181: find_duplicate_files(file_path_names), or its exception.
FindDuplicateFiles ==
    /\ pc = "scanned"
    /\ ~compare
    /\ IF group_files_by_size_raises(file_path_names)
       THEN pc' = "aborted" /\ UNCHANGED groups
       ELSE pc' = "print" /\ groups' = find_duplicate_files(file_path_names)
    /\ UNCHANGED <<fs, rootOk, compare, file_path_names, pool, stdout, cmp_call>>

\* Line 179: find_duplicate_files_by_cmp is entered (line 160).
CmpEnter ==
    /\ pc = "scanned"
    /\ compare
    /\ pool' = file_path_names
    /\ groups' = << >>
    /\ pc' = "cmp_loop"
    /\ UNCHANGED <<fs, rootOk, compare, file_path_names, stdout, cmp_call>>

\* Lines 161-170: one iteration of the while loop.
CmpIteration ==
    /\ pc = "cmp_loop"
    /\ pool # << >>
    /\ IF cmp_iteration_raises(pool)
       THEN pc' = "aborted" /\ UNCHANGED <<pool, groups>>
       ELSE LET group == group_duplicate_files(pool)
            IN  /\ pool' \in Orderings(remaining(pool, group))
                /\ groups' = appended_if_duplicates(groups, group)
                /\ pc' = "cmp_loop"
    /\ UNCHANGED <<fs, rootOk, compare, file_path_names, stdout, cmp_call>>

\* Line 171: the loop ends, groups is returned.
CmpReturn ==
    /\ pc = "cmp_loop"
    /\ pool = << >>
    /\ pc' = "print"
    /\ UNCHANGED <<fs, rootOk, compare, file_path_names, pool, groups, stdout, cmp_call>>

\* print_output(result)
PrintOutput ==
    /\ pc = "print"
    /\ stdout' = Append(stdout, groups)
    /\ pc' = "done"
    /\ UNCHANGED <<fs, rootOk, compare, file_path_names, pool, groups, cmp_call>>

Next ==
    \/ ScanFiles
    \/ FindDuplicateFiles
    \/ CmpEnter
    \/ CmpIteration
    \/ CmpReturn
    \/ PrintOutput

Spec == Init /\ [][Next]_vars

\* main is started again on the same filesystem, as a new process.
RunAgain ==
    /\ pc = "done"
    /\ Len(stdout) < Runs
    /\ pc' = "start"
    /\ file_path_names' = << >>
    /\ pool' = << >>
    /\ groups' = << >>
    /\ UNCHANGED <<fs, rootOk, compare, stdout, cmp_call>>

NextTwice ==
    \/ ScanFiles
    \/ FindDuplicateFiles
    \/ CmpEnter
    \/ CmpIteration
    \/ CmpReturn
    \/ PrintOutput
    \/ RunAgain

SpecTwice == InitTwice /\ [][NextTwice]_vars

\* compare_files(f1, f2, shallow) called on its own.
CompareFiles ==
    /\ \E f1 \in DOMAIN fs, f2 \in DOMAIN fs, shallow \in BOOLEAN :
          cmp_call' = [f1 |-> f1, f2 |-> f2, shallow |-> shallow,
                       raised |-> compare_files_raises(f1, f2),
                       result |-> IF compare_files_raises(f1, f2) THEN FALSE
                                  ELSE compare_files(f1, f2, shallow)]
    /\ UNCHANGED <<fs, rootOk, compare, pc, file_path_names, pool, groups, stdout>>

NextCompare == CompareFiles

SpecCompare == InitCompare /\ [][NextCompare]_vars

----------------------------------------------------------------------------
(* Properties                                                              *)

\* The groups of gs as sets of paths.
GroupSets(gs) == {Range(gs[i]) : i \in 1..Len(gs)}

\* a and b are in one group of gs.
SameGroup(gs, a, b) == \E g \in GroupSets(gs) : a \in g /\ b \in g

\* The run has produced its result.
Returned == pc \in {"print", "done"}

Readable(names) == SelectSeq(names, LAMBDA x : fs[x].readable)

\* C1: under either strategy every path of every group of the result is a
\* regular file, is not a symbolic link and has size > 0.
C1_GroupsHoldNonEmptyRegularFiles ==
    Returned =>
        \A g \in GroupSets(groups) : \A p \in g :
            fs[p].kind = "reg" /\ ~islink(p) /\ fs[p].st_size > 0

\* C2: two runs of a strategy on the same filesystem and path list print the
\* same groups, as sets of paths.
C2_RunsAgree ==
    \A i, j \in 1..Len(stdout) : GroupSets(stdout[i]) = GroupSets(stdout[j])

\* C3 (as claimed): checksum strategy: two paths of the input with equal
\* content and equal size are in one group; two with equal size and different
\* content are never in one group.
C3_ContentDecidesGroup ==
    (Returned /\ ~compare) =>
        \A a, b \in Range(file_path_names) :
            a # b =>
                /\ (fs[a].content = fs[b].content /\ fs[a].st_size = fs[b].st_size)
                        => SameGroup(groups, a, b)
                /\ (fs[a].content # fs[b].content /\ fs[a].st_size = fs[b].st_size)
                        => ~SameGroup(groups, a, b)

\* C3 (amended): checksum strategy: two readable paths of the input with equal
\* content and equal non-zero size are in one group; two paths are in one
\* group only if both are readable, have equal non-zero size and equal md5
\* digests.
C3_ReadableNonEmptyContentDecidesGroup ==
    (Returned /\ ~compare) =>
        \A a, b \in Range(file_path_names) :
            a # b =>
                /\ ( /\ fs[a].readable /\ fs[b].readable
                     /\ fs[a].content = fs[b].content
                     /\ fs[a].st_size = fs[b].st_size
                     /\ fs[a].st_size # 0 ) => SameGroup(groups, a, b)
                /\ SameGroup(groups, a, b) =>
                     /\ fs[a].readable /\ fs[b].readable
                     /\ fs[a].st_size = fs[b].st_size
                     /\ fs[a].st_size # 0
                     /\ hexdigest(fs[a].content) = hexdigest(fs[b].content)

\* C3 witness: a checksum run that grouped two equal files and kept a third of
\* the same size and another digest out of their group.
C3_Witness ==
    /\ pc = "done"
    /\ ~compare
    /\ \E a, b, c \in Range(file_path_names) :
        /\ a # b
        /\ fs[a].content = fs[b].content
        /\ SameGroup(groups, a, b)
        /\ fs[c].st_size = fs[a].st_size
        /\ fs[c].readable
        /\ fs[c].content # fs[a].content
        /\ ~SameGroup(groups, a, c)

\* C4: scan_files on a root that is missing or unreadable never returns
\* normally, and main prints nothing.
C4_BadRootIsFatal ==
    ~rootOk => (pc \in {"start", "aborted"} /\ stdout = << >>)

\* C5: the groups of a result are pairwise disjoint, no path is twice in a
\* group, and in the comparison strategy no grouped path is still in the pool.
C5_GroupsDisjoint ==
    /\ \A i, j \in 1..Len(groups) :
            i # j => Range(groups[i]) \cap Range(groups[j]) = {}
    /\ \A i \in 1..Len(groups) :
            Cardinality(Range(groups[i])) = Len(groups[i])
    /\ pc = "cmp_loop" => Range(pool) \cap UNION GroupSets(groups) = {}

\* C5 witness: a comparison run that ends with two groups.
C5_Witness ==
    /\ pc = "done"
    /\ compare
    /\ Len(groups) = 2

\* The decision procedure of C7 for the last direct call; with openable, the
\* last case also asks that both files can be opened.
C7_Decision(openable) ==
    (cmp_call # << >> /\ ~cmp_call.raised) =>
        LET a == fs[cmp_call.f1]
            b == fs[cmp_call.f2]
        IN  cmp_call.result =
                IF a.kind # "reg" \/ b.kind # "reg" THEN FALSE
                ELSE IF /\ cmp_call.shallow
                        /\ a.st_size = b.st_size
                        /\ a.st_mtime = b.st_mtime THEN TRUE
                ELSE IF a.st_size # b.st_size THEN FALSE
                ELSE a.content = b.content /\ (openable => a.readable /\ b.readable)

\* C7 (as claimed): compare_files returns: not equal if either path is not a
\* regular file; else equal if shallow and the signatures are identical; else
\* not equal if the sizes differ; else equal exactly when the contents are
\* identical.
C7_CompareFilesDecision == C7_Decision(FALSE)

\* C7 (amended): as claimed, but in the last case the files are equal exactly
\* when both can be opened and read and their contents are identical.
C7_CompareFilesDecisionOpenable == C7_Decision(TRUE)

\* C7 witness: two readable regular files of one size and mtime and different
\* content, compared with shallow = FALSE: not equal.
C7_Witness ==
    /\ cmp_call # << >>
    /\ ~cmp_call.shallow
    /\ ~cmp_call.result
    /\ cmp_call.f1 # cmp_call.f2
    /\ fs[cmp_call.f1].kind = "reg" /\ fs[cmp_call.f2].kind = "reg"
    /\ fs[cmp_call.f1].readable /\ fs[cmp_call.f2].readable
    /\ fs[cmp_call.f1].st_size = fs[cmp_call.f2].st_size
    /\ fs[cmp_call.f1].st_mtime = fs[cmp_call.f2].st_mtime
    /\ fs[cmp_call.f1].content # fs[cmp_call.f2].content

\* C8: a path whose content cannot be read is left out by
\* group_files_by_checksum: it is in no group, the other paths are grouped as
\* if it had not been in the input, and find_duplicate_files does not abort
\* because of it.
C8_UnreadableSilentlyExcluded ==
    ~compare =>
        /\ pc = "aborted" => \E x \in Range(file_path_names) : stat_raises(x)
        /\ Returned =>
            /\ \A g \in GroupSets(groups) : \A x \in g : fs[x].readable
            /\ groups = find_duplicate_files(Readable(file_path_names))
            /\ \A i \in 1..Len(group_files_by_size(file_path_names)) :
                LET bucket == group_files_by_size(file_path_names)[i]
                IN  group_files_by_checksum(bucket)
                        = group_files_by_checksum(Readable(bucket))

\* C8 witness: a checksum run over an unreadable file and two readable files
\* of its size, which are grouped.
C8_Witness ==
    /\ pc = "done"
    /\ ~compare
    /\ \E x, a, b \in Range(file_path_names) :
        /\ ~fs[x].readable
        /\ a # b
        /\ fs[x].st_size = fs[a].st_size
        /\ fs[x].content = fs[a].content
        /\ SameGroup(groups, a, b)

\* C9: every group that group_files_by_size, group_files_by_checksum and
\* either strategy emit has at least 2 members.
C9_GroupsHaveTwoMembers ==
    /\ \A i \in 1..Len(groups) : Len(groups[i]) >= 2
    /\ \A r \in 1..Len(stdout) : \A i \in 1..Len(stdout[r]) : Len(stdout[r][i]) >= 2
    /\ (pc # "start" /\ ~group_files_by_size_raises(file_path_names)) =>
        LET buckets == group_files_by_size(file_path_names)
        IN  \A i \in 1..Len(buckets) :
                /\ Len(buckets[i]) >= 2
                /\ \A k \in 1..Len(group_files_by_checksum(buckets[i])) :
                        Len(group_files_by_checksum(buckets[i])[k]) >= 2

\* C9 witness: a finished run over three files of which two are grouped and
\* the third is alone.
C9_Witness ==
    /\ pc = "done"
    /\ Len(file_path_names) = 3
    /\ Len(groups) = 1
    /\ Len(groups[1]) = 2

\* C10: each iteration of the loop of find_duplicate_files_by_cmp in which no
\* comparison raises removes the current path from the pool and adds nothing
\* to it, in whatever order the pool is listed: the length of the pool falls
\* at every iteration, so there are at most as many iterations as input
\* paths; and the loop is left only with the pool empty.
C10_CmpLoopTerminates ==
    /\ [][(pc = "cmp_loop" /\ pc' = "cmp_loop") =>
            /\ Len(pool') < Len(pool)
            /\ Len(pool) <= Len(file_path_names)
            /\ Range(pool') \subseteq Range(pool)
            /\ pool[1] \notin Range(pool')]_vars
    /\ [][(pc = "cmp_loop" /\ pc' = "print") => pool = << >>]_vars

\* C10 witness: a comparison run over three files that ended after its loop
\* formed a group.
C10_Witness ==
    /\ pc = "done"
    /\ compare
    /\ Len(file_path_names) = 3
    /\ pool = << >>
    /\ Len(groups) = 1

====
